---- MODULE Spec2Model ----
(***************************************************************************)
(* A model of the DeepSeek chat participant (src/src/extension.ts): one    *)
(* turn of agentHandler with the model server (ps, list, pull, chat) and   *)
(* the host (configuration, history, output stream) as its environment.    *)
(*                                                                         *)
(* Text is a sequence of characters; a long literal of the source that is  *)
(* never inspected is written as one symbol, without its backquotes.  An   *)
(* optional value (a JS value that may be undefined) is <<>> when absent   *)
(* and <<v>> when present.                                                 *)
(***************************************************************************)
EXTENDS Integers, Sequences, FiniteSets, TLC

\* ------------------------------------------------------------- constants

BASE_PROMPT == <<"You are a helpful assistant.">>
OLLAMA_HOST == <<"http://localhost:11434">>
MODEL == <<"deepseek-coder", ":1.3b">>
HIDDEN_ERROR_MESSAGE_PLACEHOLDER == <<"&", "n", "b", "s", "p", ";">>

\* --------------------------------------------------------------- bounds

MaxHist == 3
MaxPullEvents == 3
MaxBytes == 3
MaxChunks == 2
MaxTurnPullEvents == 2

\* ------------------------------------------------------------ JS helpers

None == <<>>
Some(v) == <<v>>

\* a ?? b
NullishCoalesce(a, b) == IF a = None THEN b ELSE a[1]

\* String.prototype.startsWith
startsWith(s, prefix) ==
    /\ Len(prefix) <= Len(s)
    /\ SubSeq(s, 1, Len(prefix)) = prefix

\* String.prototype.includes, used by the properties only
Includes(s, sub) ==
    \E i \in 1..(Len(s) + 1) :
        /\ i + Len(sub) - 1 <= Len(s)
        /\ SubSeq(s, i, i + Len(sub) - 1) = sub

\* Math.floor in its place
MathFloor(num, den) == num \div den

\* Math.round on the non-negative rational num/den: the nearest integer, a
\* half rounding up
MathRound(num, den) == (2 * num + den) \div (2 * den)

\* The sequences over S of length at most n
SeqsUpTo(S, n) == UNION {[1..k -> S] : k \in 0..n}

\* ---------------------------------------------------------- input values

\* A part of a response turn: a markdown part holds a MarkdownString whose
\* value is text; any other part has no text value (hasText = FALSE).
MarkdownPart(text) == [hasText |-> TRUE, value |-> text]
OtherPart == [hasText |-> FALSE, value |-> <<>>]

\* A turn of context.history: a ChatRequestTurn, a ChatResponseTurn, or
\* neither of the two.
RequestTurn(p) == [kind |-> "request", prompt |-> p, response |-> <<>>]
ResponseTurn(parts) == [kind |-> "response", prompt |-> <<>>, response |-> parts]
UnknownTurn == [kind |-> "other", prompt |-> <<>>, response |-> <<>>]

Prompts == {<<"p">>, <<"q">>}

\* Part texts: "", "a", "b", an error text (it starts with the placeholder)
\* and "&a" (it starts like the placeholder)
T_a == <<"a">>
T_b == <<"b">>
T_e == HIDDEN_ERROR_MESSAGE_PLACEHOLDER \o <<"e">>
T_amp == <<"&", "a">>
PartTextLists ==
    { <<>>, << <<>> >>, <<T_a>>, <<T_e>>, <<T_a, T_b>>, <<T_b, T_a>>, <<T_a, T_e>>,
      <<T_e, T_a>>, <<T_e, T_e>>, <<T_amp>>, <<T_a, T_e, T_b>> }
Responses == {[i \in 1..Len(l) |-> MarkdownPart(l[i])] : l \in PartTextLists}
Turns == {RequestTurn(p) : p \in Prompts} \cup {ResponseTurn(r) : r \in Responses}
             \cup {UnknownTurn}
Histories == SeqsUpTo(Turns, MaxHist)

\* A thrown value.  nullish: undefined or null, on which a property read
\* throws.  code, causeCode: err.code and err.cause?.code, NoCode when the
\* property is undefined.
NoCode == "undefined"
Codes == {NoCode, "ERR_INVALID_URL", "ECONNREFUSED", "EOTHER"}
ErrorValue(c, cc) == [nullish |-> FALSE, code |-> c, causeCode |-> cc, message |-> "failed"]
NullishValue == [nullish |-> TRUE, code |-> NoCode, causeCode |-> NoCode, message |-> NoCode]
TypeError == [nullish |-> FALSE, code |-> NoCode, causeCode |-> NoCode, message |-> "TypeError"]
Errors == {ErrorValue(c, cc) : c \in Codes, cc \in Codes} \cup {NullishValue}

\* ----------------------------------------------------- the output stream

Progress(text) == [method |-> "progress", text |-> text]
Markdown(text) == [method |-> "markdown", text |-> text]

\* ------------------------------------------------------- history adapter

\* An inner loop that skips nothing
RECURSIVE AppendPartsAll(_, _)
AppendPartsAll(fullMessage, response) ==
    IF response = <<>> THEN fullMessage
    ELSE AppendPartsAll(fullMessage \o Head(response).value, Tail(response))

\* The inner forEach over m.response: fullMessage += value for every part
\* whose value does not start with the placeholder.
RECURSIVE AppendParts(_, _)
AppendParts(fullMessage, response) ==
    IF response = <<>> THEN fullMessage
    ELSE LET value == Head(response).value
         IN  AppendParts(IF ~startsWith(value, HIDDEN_ERROR_MESSAGE_PLACEHOLDER)
                            THEN fullMessage \o value
                            ELSE fullMessage,
                         Tail(response))

\* A turn that pushes its assistant message whatever its content
TurnMessagesUnguarded(m) ==
    IF m.kind = "response"
    THEN <<[role |-> "assistant", content |-> AppendParts(<<>>, m.response)]>>
    ELSE IF m.kind = "request"
    THEN <<[role |-> "user", content |-> m.prompt]>>
    ELSE <<>>

\* What one turn pushes onto messages.
TurnMessages(m) ==
    IF m.kind = "response"
    THEN LET fullMessage == AppendParts(<<>>, m.response)
         IN  IF fullMessage # <<>>
             THEN <<[role |-> "assistant", content |-> fullMessage]>>
             ELSE <<>>
    ELSE IF m.kind = "request"
    THEN <<[role |-> "user", content |-> m.prompt]>>
    ELSE <<>>

\* const {value} = mdPart.value; value.startsWith(...) throws a TypeError on
\* a part that has no text value.
AdapterThrows(history) ==
    \E i \in 1..Len(history) :
        /\ history[i].kind = "response"
        /\ \E j \in 1..Len(history[i].response) : ~history[i].response[j].hasText

\* An adapter that puts each turn's message before the earlier ones
RECURSIVE appendAssistantHistoryUnshift(_)
appendAssistantHistoryUnshift(h) ==
    IF h = <<>> THEN <<>>
    ELSE appendAssistantHistoryUnshift(Tail(h)) \o TurnMessages(Head(h))

RECURSIVE appendAssistantHistory(_)
appendAssistantHistory(history) ==
    IF history = <<>> THEN <<>>
    ELSE TurnMessages(Head(history)) \o appendAssistantHistory(Tail(history))

\* A messages array whose preamble has the role system
BuildMessagesSystem(history, prompt) ==
    <<[role |-> "system", content |-> BASE_PROMPT]>>
        \o appendAssistantHistory(history)
        \o <<[role |-> "user", content |-> prompt]>>

\* The messages array literal of agentHandler.
BuildMessages(history, prompt) ==
    <<[role |-> "user", content |-> BASE_PROMPT]>>
        \o appendAssistantHistory(history)
        \o <<[role |-> "user", content |-> prompt]>>

\* ------------------------------------------------------ error classifier

\* A condition that looks for both codes in the cause only
IsConnectivityErrorNested(err) ==
    err.causeCode = "ERR_INVALID_URL" \/ err.causeCode = "ECONNREFUSED"

IsConnectivityError(err) ==
    err.code = "ERR_INVALID_URL" \/ err.causeCode = "ECONNREFUSED"

\* (err.code || err.cause?.code) || 'UNKNOWN'
ReportedCode(err) ==
    IF err.code # NoCode THEN err.code
    ELSE IF err.causeCode # NoCode THEN err.causeCode
    ELSE "UNKNOWN"

ConnectivityMessage(host, err) ==
    HIDDEN_ERROR_MESSAGE_PLACEHOLDER
        \o <<"I'm sorry, I cannot connect to the Ollama server.",
             "Please check the following:",
             "- The Ollama app is installed and running.",
             "- The Ollama server is running at [">>
        \o host \o <<"](">> \o host \o <<")">>
        \o <<"- The Ollama server URL is correct in your settings.json: deepseek.ollama.host",
             "- The Ollama server is accessible from this network.",
             "Here is the error message: ", err.message, " (code: ", ReportedCode(err), ")">>

\* A fallback message marked like the connectivity message
GenericMessageMarked ==
    HIDDEN_ERROR_MESSAGE_PLACEHOLDER
        \o <<"I'm sorry, I can't help with that. Can I help with something else?">>

GenericMessage == <<"I'm sorry, I can't help with that. Can I help with something else?">>

\* The message handleError renders for a value whose properties can be read.
ErrorMessage(host, err) ==
    IF IsConnectivityError(err)
    THEN ConnectivityMessage(host, err)
    ELSE GenericMessage

\* ----------------------------------------------------------- pull events

\* A progress event of the pull stream: digest, completed and total are
\* optional.
Digests == {None, Some("sha256:a")}
Counts == {None} \cup {Some(n) : n \in 0..MaxBytes}
PullParts == [status : {"pulling"}, digest : Digests, completed : Counts, total : Counts]

\* JS truthiness of an optional string and of an optional number
TruthyString(o) == o # None /\ o[1] # ""
TruthyNumber(o) == o # None /\ o[1] # 0

\* let percent = 0; if (part.completed && part.total) percent = Math.round(...)
Percent(part) ==
    IF TruthyNumber(part.completed) /\ TruthyNumber(part.total)
    THEN MathRound(part.completed[1] * 100, part.total[1])
    ELSE 0

\* ------------------------------------------------- inputs of a whole turn

ChunkTexts == {<<>>, <<"H", "e", "l">>, <<"l", "o">>}
Chunk(text) == [message |-> [role |-> "assistant", content |-> text]]

ModelNames == {<<"deepseek-coder">>, MODEL}
HostNames == {<<"http://ollama:11434">>}

\* Responses of ollama.list(): the installed models' names
TurnModelLists ==
    { <<>>,
      <<[name |-> <<"llama3">>], [name |-> <<"deepseek-coder">>]>>,
      <<[name |-> <<"llama3">>], [name |-> MODEL \o <<"-q4">>]>>,
      <<[name |-> MODEL]>> }

TurnErrors == Errors

TurnPullParts ==
    { [status |-> "pulling", digest |-> None, completed |-> None, total |-> None],
      [status |-> "verifying", digest |-> None, completed |-> None, total |-> None],
      [status |-> "pulling", digest |-> Some("sha256:a"), completed |-> Some(1), total |-> Some(1)] }

TurnHistories ==
    { <<>>,
      <<RequestTurn(<<"p">>),
        ResponseTurn(<<MarkdownPart(T_a), MarkdownPart(T_e)>>)>> }

\* ------------------------------------------------------------------ state

VARIABLES
    pc,                 \* where agentHandler is suspended, or how it ended
    config,             \* the host's configuration: model.name and ollama.host
    history,            \* context.history
    prompt,             \* request.prompt
    model,              \* agentHandler's model
    ollamaHost,         \* the host the Ollama client was built with
    models,             \* the response of ollama.list(), once it has arrived
    currentDigestDone,  \* pullModel's flag
    pulled,             \* the number of pull events consumed
    lastPart,           \* the pull event consumed last
    messages,           \* agentHandler's messages
    chat,               \* the chat stream: "none", "open", "ended", "failed"
    chatError,          \* the value streamResponse caught
    served,             \* the chunks the chat stream has yielded
    log,                \* the server calls and output stream writes, in order
    stdout,             \* pullModel's writes to process.stdout
    err,                \* the value agentHandler caught
    result,             \* what agentHandler returned
    rejected,           \* the exception that escaped agentHandler
    suspended           \* the locals of a second call of agentHandler, while
                        \* it waits at an await

vars == <<pc, config, history, prompt, model, ollamaHost, models, currentDigestDone,
          pulled, lastPart, messages, chat, chatError, served, log, stdout, err, result,
          rejected, suspended>>

Call(name) == [method |-> name, text |-> <<>>]
ServerCalls == {"ps", "list", "pull", "chat"}

IsWrite(e) == e.method \in {"progress", "markdown"}
IsCall(e) == e.method \in ServerCalls
IsMarkdown(e) == e.method = "markdown"
IsProgress(e) == e.method = "progress"

\* stdout entries: a write of the percent without a line break, or the line
\* break of console.log()
StdoutWrite(status, percent) == [kind |-> "write", status |-> status, percent |-> percent]
StdoutNewline == [kind |-> "newline", status |-> "", percent |-> 0]

readModelFromConfig == NullishCoalesce(config.model, MODEL)
readOllamaHostFromConfig == NullishCoalesce(config.host, OLLAMA_HOST)

IAgentChatResult == [metadata |-> [command |-> ""]]

\* The handler is called: nothing has run yet.
TurnStart ==
    /\ pc = "start"
    /\ model = <<>>
    /\ ollamaHost = <<>>
    /\ models = None
    /\ currentDigestDone = FALSE
    /\ pulled = 0
    /\ lastPart = None
    /\ messages = <<>>
    /\ chat = "none"
    /\ chatError = None
    /\ served = <<>>
    /\ log = <<>>
    /\ stdout = <<>>
    /\ err = None
    /\ result = None
    /\ rejected = None

Configs == [model : {None} \cup {Some(m) : m \in ModelNames},
            host : {None} \cup {Some(h) : h \in HostNames}]

Init ==
    /\ TurnStart
    /\ suspended = None
    /\ config \in Configs
    /\ history \in TurnHistories
    /\ prompt \in Prompts

\* ---------------------------------------------------------------- actions

\* The catch block of agentHandler is entered with the thrown value e.
Caught(e) ==
    /\ pc' = "catch"
    /\ err' = Some(e)

\* agentHandler up to its second await: getTools() resolves or fails; then
\* the configuration is read, the client is built and ps() is called.
AgentHandlerStart(E) ==
    /\ pc = "start"
    /\ \/ /\ \E e \in E : Caught(e)
          /\ UNCHANGED <<model, ollamaHost, log>>
       \/ /\ model' = readModelFromConfig
          /\ ollamaHost' = readOllamaHostFromConfig
          /\ log' = Append(log, Call("ps"))
          /\ pc' = "ps"
          /\ UNCHANGED err
    /\ UNCHANGED <<config, history, prompt, models, currentDigestDone, pulled, lastPart,
                   messages, chat, served, stdout, result, rejected, chatError, suspended>>

\* A probe that calls ps() a second time when the first call fails
AssertOllamaRunningRetry(E) ==
    /\ pc = "ps"
    /\ \/ /\ \E e \in E :
               IF Len(SelectSeq(log, LAMBDA c : c.method = "ps")) < 2
               THEN log' = Append(log, Call("ps")) /\ UNCHANGED <<pc, err>>
               ELSE Caught(e) /\ UNCHANGED log
       \/ /\ log' = Append(log, Call("list"))
          /\ pc' = "list"
          /\ UNCHANGED err
    /\ UNCHANGED <<config, history, prompt, model, ollamaHost, models, currentDigestDone,
                   pulled, lastPart, messages, chat, served, stdout, result, rejected,
                   chatError, suspended>>

\* assertOllamaRunning: ps() resolves, and assertPullModel calls list(); or
\* ps() fails.
AssertOllamaRunning(E) ==
    /\ pc = "ps"
    /\ \/ /\ \E e \in E : Caught(e)
          /\ UNCHANGED log
       \/ /\ log' = Append(log, Call("list"))
          /\ pc' = "list"
          /\ UNCHANGED err
    /\ UNCHANGED <<config, history, prompt, model, ollamaHost, models, currentDigestDone,
                   pulled, lastPart, messages, chat, served, stdout, result, rejected,
                   chatError, suspended>>

\* A filter that keeps only the names equal to the requested one
InstalledCountExact(installed, name) ==
    Len(SelectSeq(installed, LAMBDA m : m.name = name))

\* models.map((m) => m.name).filter((m) => m.startsWith(model)).length
InstalledCount(installed, name) ==
    Len(SelectSeq(installed, LAMBDA m : startsWith(m.name, name)))

\* The three notifications of assertPullModel
NotFoundProgress(name) ==
    << Progress(<<"Model ">> \o name \o <<" not found.\n">>),
       Progress(<<"Installing model.\n">>),
       Progress(<<"This might take a few minutes.\n">>) >>

\* agentHandler from the return of assertPullModel to its next await: the
\* messages are built and streamResponse is called.
StartChat ==
    IF AdapterThrows(history)
    THEN /\ Caught(TypeError)
         /\ UNCHANGED messages
    ELSE /\ messages' = BuildMessages(history, prompt)
         /\ pc' = "chatcall"
         /\ UNCHANGED err

\* assertPullModel: list() resolves or fails.  With no installed model that
\* matches, the notifications are written and pullModel calls pull();
\* otherwise assertPullModel returns.
AssertPullModel(L, E) ==
    /\ pc = "list"
    /\ \/ /\ \E e \in E : Caught(e)
          /\ UNCHANGED <<models, log, currentDigestDone, messages>>
       \/ \E installed \in L :
            /\ models' = Some(installed)
            /\ IF InstalledCount(installed, model) = 0
               THEN /\ log' = log \o NotFoundProgress(model) \o <<Call("pull")>>
                    /\ currentDigestDone' = FALSE
                    /\ pc' = "pullopen"
                    /\ UNCHANGED <<err, messages>>
               ELSE /\ StartChat
                    /\ UNCHANGED <<log, currentDigestDone>>
    /\ UNCHANGED <<config, history, prompt, model, ollamaHost, pulled, lastPart, chat,
                   served, stdout, result, rejected, chatError, suspended>>

\* pullModel: pull() resolves to the event stream, or fails.
PullOpen(E) ==
    /\ pc = "pullopen"
    /\ \/ \E e \in E : Caught(e)
       \/ /\ pc' = "pulling"
          /\ UNCHANGED err
    /\ UNCHANGED <<config, history, prompt, model, ollamaHost, models, currentDigestDone,
                   pulled, lastPart, messages, chat, served, log, stdout, result, rejected,
                   chatError, suspended>>

\* percent === 100 && !currentDigestDone
BreaksLine(percent, done) == percent = 100 /\ ~done

\* currentDigestDone after a digest event: set with the line break, cleared
\* otherwise
NextDigestDone(percent, done) == BreaksLine(percent, done)

\* What a digest event writes to process.stdout
DigestOutput(part, done) ==
    <<StdoutWrite(part.status, Percent(part))>>
        \o (IF BreaksLine(Percent(part), done) THEN <<StdoutNewline>> ELSE <<>>)

\* A loop body that writes the progress line for every event
PullPartProgressAll(part, max) ==
    /\ pc = "pulling"
    /\ pulled < max
    /\ pulled' = pulled + 1
    /\ lastPart' = Some(part)
    /\ log' = Append(log, Progress(<<part.status, "...\n">>))
    /\ IF TruthyString(part.digest)
       THEN /\ stdout' = stdout \o DigestOutput(part, currentDigestDone)
            /\ currentDigestDone' = NextDigestDone(Percent(part), currentDigestDone)
       ELSE UNCHANGED <<stdout, currentDigestDone>>
    /\ UNCHANGED <<pc, config, history, prompt, model, ollamaHost, models, messages, chat,
                   served, err, result, rejected, chatError, suspended>>

\* pullModel: one pass of the for await loop, over the event part.
PullPart(part, max) ==
    /\ pc = "pulling"
    /\ pulled < max
    /\ pulled' = pulled + 1
    /\ lastPart' = Some(part)
    /\ IF TruthyString(part.digest)
       THEN /\ stdout' = stdout \o DigestOutput(part, currentDigestDone)
            /\ currentDigestDone' = NextDigestDone(Percent(part), currentDigestDone)
            /\ UNCHANGED log
       ELSE /\ log' = Append(log, Progress(<<part.status, "...\n">>))
            /\ UNCHANGED <<stdout, currentDigestDone>>
    /\ UNCHANGED <<pc, config, history, prompt, model, ollamaHost, models, messages, chat,
                   served, err, result, rejected, chatError, suspended>>

\* pullModel: the event stream fails.
PullError(E) ==
    /\ pc = "pulling"
    /\ \E e \in E : Caught(e)
    /\ UNCHANGED <<config, history, prompt, model, ollamaHost, models, currentDigestDone,
                   pulled, lastPart, messages, chat, served, log, stdout, result, rejected,
                   chatError, suspended>>

\* pullModel: the event stream ends; pullModel and assertPullModel return.
PullEnd ==
    /\ pc = "pulling"
    /\ log' = Append(log, Progress(<<"Download complete!\n">>))
    /\ StartChat
    /\ UNCHANGED <<config, history, prompt, model, ollamaHost, models, currentDigestDone,
                   pulled, lastPart, chat, served, stdout, result, rejected,
                   chatError, suspended>>

\* streamResponse up to its await: the first next() of agentHandler's loop
\* runs the generator, which calls chat().
StreamResponseStart ==
    /\ pc = "chatcall"
    /\ log' = Append(log, Call("chat"))
    /\ pc' = "chatopen"
    /\ UNCHANGED <<config, history, prompt, model, ollamaHost, models, currentDigestDone,
                   pulled, lastPart, messages, chat, served, stdout, err, result, rejected,
                   chatError, suspended>>

\* agentHandler returns its result.
Returns ==
    /\ pc' = "returned"
    /\ result' = Some(IAgentChatResult)

\* A catch block that throws the error again after logging it
StreamResponseCatchRethrow(e) ==
    /\ chat' = "failed"
    /\ chatError' = Some(e)
    /\ Caught(IF e.nullish THEN TypeError ELSE e)
    /\ UNCHANGED result

\* The catch block of streamResponse, console.error(err.message): the
\* generator ends and agentHandler's loop with it; reading the message of
\* undefined or null throws a TypeError, which leaves the generator.
StreamResponseCatch(e) ==
    /\ chat' = "failed"
    /\ chatError' = Some(e)
    /\ IF e.nullish
       THEN /\ Caught(TypeError)
            /\ UNCHANGED result
       ELSE /\ Returns
            /\ UNCHANGED err

\* streamResponse: chat() resolves to the chunk stream, or fails.
StreamResponseOpen(E) ==
    /\ pc = "chatopen"
    /\ \/ \E e \in E : StreamResponseCatch(e)
       \/ /\ chat' = "open"
          /\ pc' = "relay"
          /\ UNCHANGED <<err, result, chatError>>
    /\ UNCHANGED <<config, history, prompt, model, ollamaHost, models, currentDigestDone,
                   pulled, lastPart, messages, served, log, stdout, rejected, suspended>>

\* A relay that batches: a fragment is appended to the markdown written last
RelayFragmentBatched(written, fragment) ==
    IF written # <<>> /\ written[Len(written)].method = "markdown"
    THEN [written EXCEPT ![Len(written)].text = @ \o fragment.message.content]
    ELSE Append(written, Markdown(fragment.message.content))

\* stream.markdown(fragment.message.content)
RelayFragment(written, fragment) == Append(written, Markdown(fragment.message.content))

\* One chunk: streamResponse yields it and agentHandler writes its content.
StreamResponseChunk(text) ==
    /\ pc = "relay"
    /\ Len(served) < MaxChunks
    /\ served' = Append(served, Chunk(text))
    /\ log' = RelayFragment(log, Chunk(text))
    /\ UNCHANGED <<pc, config, history, prompt, model, ollamaHost, models,
                   currentDigestDone, pulled, lastPart, messages, chat, stdout, err,
                   result, rejected, chatError, suspended>>

\* The chunk stream fails.
StreamResponseError(E) ==
    /\ pc = "relay"
    /\ \E e \in E : StreamResponseCatch(e)
    /\ UNCHANGED <<config, history, prompt, model, ollamaHost, models, currentDigestDone,
                   pulled, lastPart, messages, served, log, stdout, rejected, suspended>>

\* The chunk stream ends: the generator and agentHandler's loop end.
StreamResponseEnd ==
    /\ pc = "relay"
    /\ chat' = "ended"
    /\ Returns
    /\ UNCHANGED <<config, history, prompt, model, ollamaHost, models, currentDigestDone,
                   pulled, lastPart, messages, served, log, stdout, err, rejected,
                   chatError, suspended>>

\* handleError, called from the catch block of agentHandler.  Reading
\* err.code of undefined or null throws a TypeError, which nothing catches.
HandleError ==
    /\ pc = "catch"
    /\ IF err[1].nullish
       THEN /\ pc' = "rejected"
            /\ rejected' = Some(TypeError)
            /\ UNCHANGED <<log, result>>
       ELSE /\ log' = Append(log, Markdown(ErrorMessage(readOllamaHostFromConfig, err[1])))
            /\ Returns
            /\ UNCHANGED rejected
    /\ UNCHANGED <<config, history, prompt, model, ollamaHost, models, currentDigestDone,
                   pulled, lastPart, messages, chat, served, stdout, err, chatError,
                   suspended>>

\* The user edits deepseek.ollama.host while the turn runs.
ConfigurationChanged ==
    /\ pc \notin {"returned", "rejected"}
    /\ \E h \in ({None} \cup {Some(n) : n \in HostNames}) \ {config.host} :
         config' = [config EXCEPT !.host = h]
    /\ UNCHANGED <<pc, history, prompt, model, ollamaHost, models, currentDigestDone,
                   pulled, lastPart, messages, chat, served, log, stdout, err, result,
                   rejected, chatError, suspended>>

\* ------------------------------------------------------ the turn, whole

Start == AgentHandlerStart(TurnErrors)
Probe == AssertOllamaRunning(TurnErrors)
ListModels == AssertPullModel(TurnModelLists, TurnErrors)
OpenPull == PullOpen(TurnErrors)
PullEvent == \E part \in TurnPullParts : PullPart(part, MaxTurnPullEvents)
PullFails == PullError(TurnErrors)
OpenChat == StreamResponseOpen(TurnErrors)
ChatChunk == \E text \in ChunkTexts : StreamResponseChunk(text)
ChatFails == StreamResponseError(TurnErrors)

Next ==
    \/ Start
    \/ Probe
    \/ ListModels
    \/ OpenPull
    \/ PullEvent
    \/ PullFails
    \/ PullEnd
    \/ StreamResponseStart
    \/ OpenChat
    \/ ChatChunk
    \/ ChatFails
    \/ StreamResponseEnd
    \/ HandleError
    \/ ConfigurationChanged

Spec == Init /\ [][Next]_vars

\* ------------------------------------------- the history adapter, alone

\* agentHandler suspended in assertPullModel, at await ollama.list(), under
\* the default configuration.
AwaitingList ==
    /\ pc = "list"
    /\ config = [model |-> None, host |-> None]
    /\ model = MODEL
    /\ ollamaHost = OLLAMA_HOST
    /\ models = None
    /\ currentDigestDone = FALSE
    /\ pulled = 0
    /\ lastPart = None
    /\ messages = <<>>
    /\ chat = "none"
    /\ chatError = None
    /\ served = <<>>
    /\ log = <<Call("ps"), Call("list")>>
    /\ stdout = <<>>
    /\ err = None
    /\ result = None
    /\ rejected = None

InitAdapter ==
    /\ AwaitingList
    /\ suspended = None
    /\ history \in Histories
    /\ prompt = <<"q">>

ListInstalled == AssertPullModel({<<[name |-> MODEL]>>}, {ErrorValue(NoCode, NoCode)})

NextAdapter ==
    \/ ListInstalled
    \/ StreamResponseStart

SpecAdapter == InitAdapter /\ [][NextAdapter]_vars

\* ------------------------- the history adapter, over parts of every kind

\* Responses that hold a part other than a ChatResponseMarkdownPart (an
\* anchor, a file tree, a command button), alone or next to a markdown part
ResponsesAnyPart ==
    Responses \cup { <<OtherPart>>, <<MarkdownPart(T_a), OtherPart>>,
                     <<OtherPart, MarkdownPart(T_a)>> }
TurnsAnyPart == Turns \cup {ResponseTurn(r) : r \in ResponsesAnyPart}
HistoriesAnyPart == SeqsUpTo(TurnsAnyPart, MaxHist)

InitParts ==
    /\ AwaitingList
    /\ suspended = None
    /\ history \in HistoriesAnyPart
    /\ prompt = <<"q">>

SpecParts == InitParts /\ [][NextAdapter]_vars

\* --------------------------------------------------- pullModel, alone

\* agentHandler suspended in pullModel, at the first read of the event
\* stream, under the default configuration.
AwaitingPullEvent ==
    /\ pc = "pulling"
    /\ config = [model |-> None, host |-> None]
    /\ model = MODEL
    /\ ollamaHost = OLLAMA_HOST
    /\ models = Some(<<>>)
    /\ currentDigestDone = FALSE
    /\ pulled = 0
    /\ lastPart = None
    /\ messages = <<>>
    /\ chat = "none"
    /\ chatError = None
    /\ served = <<>>
    /\ log = <<Call("ps"), Call("list")>> \o NotFoundProgress(MODEL) \o <<Call("pull")>>
    /\ stdout = <<>>
    /\ err = None
    /\ result = None
    /\ rejected = None

InitPull ==
    /\ AwaitingPullEvent
    /\ suspended = None
    /\ history = <<>>
    /\ prompt = <<"q">>

PullAnyEvent == \E part \in PullParts : PullPart(part, MaxPullEvents)

NextPull ==
    \/ PullAnyEvent
    \/ PullEnd

SpecPull == InitPull /\ [][NextPull]_vars

\* ------------------------------------------------- one turn after another

\* The turns of one conversation
MaxTurns == 2

\* A connectivity error and another one
ReplayErrors == {ErrorValue("ERR_INVALID_URL", NoCode), ErrorValue("EOTHER", NoCode)}

\* What the host keeps of the turn as the response of context.history: the
\* markdown parts written to the output stream, one part per write.
RenderedParts ==
    LET md == SelectSeq(log, IsMarkdown)
    IN  [i \in 1..Len(md) |-> MarkdownPart(md[i].text)]

\* The first turn of a conversation, under the default configuration.
InitTurns ==
    /\ TurnStart
    /\ suspended = None
    /\ config = [model |-> None, host |-> None]
    /\ history = <<>>
    /\ prompt \in Prompts

ReplayStart == AgentHandlerStart(ReplayErrors)
ReplayProbe == AssertOllamaRunning(ReplayErrors)
ReplayList == AssertPullModel({<<[name |-> MODEL]>>}, ReplayErrors)
ReplayOpenChat == StreamResponseOpen(ReplayErrors)
ReplayChunk == StreamResponseChunk(<<"H", "e", "l">>)
ReplayChatFails == StreamResponseError(ReplayErrors)

\* The turn is over and the user sends the next prompt: the host calls
\* agentHandler again, with the finished turn added to context.history.
NextTurn ==
    /\ pc \in {"returned", "rejected"}
    /\ Len(history) < 2 * (MaxTurns - 1)
    /\ history' = history \o <<RequestTurn(prompt), ResponseTurn(RenderedParts)>>
    /\ prompt' \in Prompts
    /\ pc' = "start"
    /\ model' = <<>>
    /\ ollamaHost' = <<>>
    /\ models' = None
    /\ currentDigestDone' = FALSE
    /\ pulled' = 0
    /\ lastPart' = None
    /\ messages' = <<>>
    /\ chat' = "none"
    /\ chatError' = None
    /\ served' = <<>>
    /\ log' = <<>>
    /\ err' = None
    /\ result' = None
    /\ rejected' = None
    /\ UNCHANGED <<config, stdout, suspended>>

NextTurns ==
    \/ ReplayStart
    \/ ReplayProbe
    \/ ReplayList
    \/ StreamResponseStart
    \/ ReplayOpenChat
    \/ ReplayChunk
    \/ ReplayChatFails
    \/ StreamResponseEnd
    \/ HandleError
    \/ NextTurn

SpecTurns == InitTurns /\ [][NextTurns]_vars

\* --------------------------------------------------- two turns at a time

\* The locals of the call of agentHandler that is running, with those of the
\* functions it calls: everything but the configuration and process.stdout.
Locals ==
    [pc |-> pc, history |-> history, prompt |-> prompt, model |-> model,
     ollamaHost |-> ollamaHost, models |-> models,
     currentDigestDone |-> currentDigestDone, pulled |-> pulled, lastPart |-> lastPart,
     messages |-> messages, chat |-> chat, chatError |-> chatError, served |-> served,
     log |-> log, err |-> err, result |-> result, rejected |-> rejected]

\* A resumption under one currentDigestDone for all calls of pullModel: the
\* call finds the flag as the other call left it
ResumedSharedFlag(saved, running) ==
    [saved EXCEPT !.currentDigestDone = running.currentDigestDone]

\* What a call finds when it resumes after an await, saved being its locals
\* when it was suspended and running those of the call that ran meanwhile:
\* every local is declared inside agentHandler, pullModel or streamResponse,
\* one per call.
Resumed(saved, running) == saved

TwoErrors == {ErrorValue("EOTHER", NoCode)}

TwoPullParts ==
    { [status |-> "pulling", digest |-> None, completed |-> None, total |-> None],
      [status |-> "pulling", digest |-> Some("sha256:a"), completed |-> Some(1), total |-> Some(1)] }

\* The second call, about to run: another prompt and another history
SecondCall ==
    [pc |-> "start",
     history |-> <<RequestTurn(<<"p">>), ResponseTurn(<<MarkdownPart(T_a)>>)>>,
     prompt |-> <<"q">>, model |-> <<>>, ollamaHost |-> <<>>, models |-> None,
     currentDigestDone |-> FALSE, pulled |-> 0, lastPart |-> None, messages |-> <<>>,
     chat |-> "none", chatError |-> None, served |-> <<>>, log |-> <<>>, err |-> None,
     result |-> None, rejected |-> None]

\* Two calls of agentHandler, none of which has run yet, under the default
\* configuration.
InitTwo ==
    /\ TurnStart
    /\ config = [model |-> None, host |-> None]
    /\ history = <<>>
    /\ prompt = <<"p">>
    /\ suspended = Some(SecondCall)

\* The running call waits at an await and the other call goes on.
Switch ==
    /\ suspended # None
    /\ suspended[1].pc \notin {"returned", "rejected"}
    /\ suspended' = Some(Locals)
    /\ LET r == Resumed(suspended[1], Locals)
       IN  /\ pc' = r.pc
           /\ history' = r.history
           /\ prompt' = r.prompt
           /\ model' = r.model
           /\ ollamaHost' = r.ollamaHost
           /\ models' = r.models
           /\ currentDigestDone' = r.currentDigestDone
           /\ pulled' = r.pulled
           /\ lastPart' = r.lastPart
           /\ messages' = r.messages
           /\ chat' = r.chat
           /\ chatError' = r.chatError
           /\ served' = r.served
           /\ log' = r.log
           /\ err' = r.err
           /\ result' = r.result
           /\ rejected' = r.rejected
    /\ UNCHANGED <<config, stdout>>

TwoStart == AgentHandlerStart(TwoErrors)
TwoProbe == AssertOllamaRunning(TwoErrors)
TwoList == AssertPullModel({<<>>, <<[name |-> MODEL]>>}, TwoErrors)
TwoOpenPull == PullOpen(TwoErrors)
TwoPullEvent == \E part \in TwoPullParts : PullPart(part, MaxTurnPullEvents)
TwoPullFails == PullError(TwoErrors)
TwoOpenChat == StreamResponseOpen(TwoErrors)
TwoChunk == StreamResponseChunk(<<"H", "e", "l">>)
TwoChatFails == StreamResponseError(TwoErrors)

NextTwo ==
    \/ TwoStart
    \/ TwoProbe
    \/ TwoList
    \/ TwoOpenPull
    \/ TwoPullEvent
    \/ TwoPullFails
    \/ PullEnd
    \/ StreamResponseStart
    \/ TwoOpenChat
    \/ TwoChunk
    \/ TwoChatFails
    \/ StreamResponseEnd
    \/ HandleError
    \/ Switch

SpecTwo == InitTwo /\ [][NextTwo]_vars

\* ------------------------------------------------------------ properties

MarkdownTexts(l) ==
    LET md == SelectSeq(l, IsMarkdown)
    IN  [i \in 1..Len(md) |-> md[i].text]

ServedTexts == [i \in 1..Len(served) |-> served[i].message.content]

CountOf(l, method) == Len(SelectSeq(l, LAMBDA e : e.method = method))

\* C1: while the chat stream is open and once it has ended without failing,
\* the markdown writes are exactly the contents of the chunks it has yielded,
\* one write per chunk, in arrival order.
C1_RelayInOrder ==
    chat \in {"open", "ended"} => MarkdownTexts(log) = ServedTexts

C1_Witness ==
    /\ pc = "returned"
    /\ chat = "ended"
    /\ ServedTexts = << <<"H", "e", "l">>, <<"l", "o">> >>
    /\ MarkdownTexts(log) = << <<"H", "e", "l">>, <<"l", "o">> >>

\* The messages the adapter gave: agentHandler's messages without the
\* preamble and the new prompt.
HistoryMessages == SubSeq(messages, 2, Len(messages) - 1)

\* A text that begins with the placeholder, character by character
IsMarked(text) ==
    /\ Len(text) >= Len(HIDDEN_ERROR_MESSAGE_PLACEHOLDER)
    /\ \A k \in 1..Len(HIDDEN_ERROR_MESSAGE_PLACEHOLDER) :
         text[k] = HIDDEN_ERROR_MESSAGE_PLACEHOLDER[k]

\* The concatenation of a response's unmarked part texts, in order
RECURSIVE KeptText(_)
KeptText(response) ==
    IF response = <<>> THEN <<>>
    ELSE LET last == response[Len(response)].value
         IN  KeptText(SubSeq(response, 1, Len(response) - 1))
                 \o (IF IsMarked(last) THEN <<>> ELSE last)

\* f assigns to each message the turn it comes from: in increasing order,
\* a user message from a request turn and an assistant message from a
\* response turn.
Assigns(f, ms, h) ==
    /\ \A j, k \in 1..Len(ms) : j < k => f[j] < f[k]
    /\ \A j \in 1..Len(ms) :
         \/ ms[j].role = "user" /\ h[f[j]].kind = "request"
         \/ ms[j].role = "assistant" /\ h[f[j]].kind = "response"

Assignments(ms, h) == {f \in [1..Len(ms) -> 1..Len(h)] : Assigns(f, ms, h)}

Covers(f, i) == \E j \in DOMAIN f : f[j] = i

\* C2: the user messages of the adapter's output are the request turns of
\* the history, one message per turn with the turn's prompt as content, in
\* the order of the turns, also relative to the assistant messages.
C2_UserTurnsOneToOne ==
    pc = "chatcall" =>
        \E f \in Assignments(HistoryMessages, history) :
            /\ \A i \in 1..Len(history) : history[i].kind = "request" => Covers(f, i)
            /\ \A j \in 1..Len(HistoryMessages) :
                 HistoryMessages[j].role = "user" =>
                     HistoryMessages[j].content = history[f[j]].prompt

C2_Witness ==
    /\ pc = "chatcall"
    /\ history = <<RequestTurn(<<"p">>), ResponseTurn(<<MarkdownPart(T_a)>>),
                   RequestTurn(<<"q">>)>>
    /\ HistoryMessages = <<[role |-> "user", content |-> <<"p">>],
                           [role |-> "assistant", content |-> T_a],
                           [role |-> "user", content |-> <<"q">>]>>

\* C3: every assistant message of the adapter's output comes from a response
\* turn and holds the concatenation of exactly that turn's parts that do not
\* start with the placeholder, in their order; every response turn with such
\* a non-empty concatenation has its message.
C3_UnmarkedPartsConcatenated ==
    pc = "chatcall" =>
        \E f \in Assignments(HistoryMessages, history) :
            /\ \A i \in 1..Len(history) :
                 (\/ history[i].kind = "request"
                  \/ (history[i].kind = "response" /\ KeptText(history[i].response) # <<>>))
                     => Covers(f, i)
            /\ \A j \in 1..Len(HistoryMessages) :
                 HistoryMessages[j].role = "assistant" =>
                     HistoryMessages[j].content = KeptText(history[f[j]].response)

C3_Witness ==
    /\ pc = "chatcall"
    /\ history = <<ResponseTurn(<<MarkdownPart(T_a), MarkdownPart(T_e), MarkdownPart(T_b)>>)>>
    /\ HistoryMessages = <<[role |-> "assistant", content |-> <<"a", "b">>]>>

\* C4: no message of the adapter's output comes from a response turn whose
\* parts all start with the placeholder, or whose remaining concatenation is
\* empty, and no assistant message has empty content.
C4_NoEmptyAssistantMessage ==
    pc = "chatcall" =>
        /\ \A j \in 1..Len(HistoryMessages) :
             HistoryMessages[j].role = "assistant" => HistoryMessages[j].content # <<>>
        /\ \E f \in Assignments(HistoryMessages, history) :
             \A i \in 1..Len(history) :
                 /\ history[i].kind = "request" => Covers(f, i)
                 /\ (history[i].kind = "response" /\ KeptText(history[i].response) = <<>>)
                        => ~Covers(f, i)

C4_Witness ==
    /\ pc = "chatcall"
    /\ history = <<RequestTurn(<<"p">>),
                   ResponseTurn(<<MarkdownPart(T_e), MarkdownPart(T_e)>>)>>
    /\ HistoryMessages = <<[role |-> "user", content |-> <<"p">>]>>

Finished == pc \in {"returned", "rejected"}

\* C5: whatever fails inside the turn, agentHandler ends by returning
\* {metadata: {command: ""}} and no exception escapes it.
C5_AlwaysReturnsResult ==
    Finished => (pc = "returned" /\ result = Some(IAgentChatResult) /\ rejected = None)

Recognized == {"ERR_INVALID_URL", "ECONNREFUSED"}

LastWritten == log[Len(log)]

\* C6: when handleError has handled an error whose own code is
\* ERR_INVALID_URL, the message it rendered is the connectivity message, not
\* the fallback: it starts with the placeholder and contains the host
\* configured at that time.
C6_InvalidUrlIsConnectivity ==
    (pc = "returned" /\ err # None /\ err[1].code = "ERR_INVALID_URL") =>
        /\ IsMarkdown(LastWritten)
        /\ LastWritten.text # <<"I'm sorry, I can't help with that. Can I help with something else?">>
        /\ IsMarked(LastWritten.text)
        /\ Includes(LastWritten.text, <<"I'm sorry, I cannot connect to the Ollama server.">>)
        /\ Includes(LastWritten.text, NullishCoalesce(config.host, OLLAMA_HOST))

C6_Witness ==
    /\ pc = "returned"
    /\ err = Some(ErrorValue("ERR_INVALID_URL", NoCode))
    /\ config.host = Some(<<"http://ollama:11434">>)
    /\ ollamaHost = OLLAMA_HOST
    /\ Includes(LastWritten.text, <<"http://ollama:11434">>)

\* C7: handleError, given a value whose properties can be read and whose
\* code and cause code are both neither ERR_INVALID_URL nor ECONNREFUSED,
\* writes exactly one message, the fallback, which does not start with the
\* placeholder, and agentHandler returns.
C7_UnrecognizedIsGeneric ==
    [][(/\ pc = "catch"
        /\ pc' # "catch"
        /\ ~err[1].nullish
        /\ err[1].code \notin Recognized
        /\ err[1].causeCode \notin Recognized)
       => (/\ pc' = "returned"
           /\ Len(log') = Len(log) + 1
           /\ SubSeq(log', 1, Len(log)) = log
           /\ IsMarkdown(log'[Len(log')])
           /\ log'[Len(log')].text =
                  <<"I'm sorry, I can't help with that. Can I help with something else?">>
           /\ ~IsMarked(log'[Len(log')].text))]_vars

C7_Witness ==
    /\ pc = "returned"
    /\ err = Some(ErrorValue("EOTHER", "EOTHER"))
    /\ IsMarkdown(LastWritten)
    /\ ~IsMarked(LastWritten.text)
    /\ CountOf(log, "markdown") = 1

\* A name begins with another, position by position
BeginsWith(name, start) ==
    /\ Len(start) <= Len(name)
    /\ \A k \in 1..Len(start) : name[k] = start[k]

NoneInstalled ==
    \A i \in 1..Len(models[1]) : ~BeginsWith(models[1][i].name, model)

ListCallIndex == CHOOSE i \in 1..Len(log) : log[i] = Call("list")

AfterList == SubSeq(log, ListCallIndex + 1, Len(log))

\* C8: once list() has answered: if no installed name starts with the
\* requested name, assertPullModel has written its three notifications and
\* then called pull, and pull is called once in the turn; otherwise pull is
\* never called and no progress notification is written.
C8_PullOnceWhenAbsent ==
    models # None =>
        IF NoneInstalled
        THEN /\ Len(AfterList) >= 4
             /\ \A k \in 1..3 : IsProgress(AfterList[k])
             /\ Includes(AfterList[1].text, model)
             /\ AfterList[4] = Call("pull")
             /\ CountOf(log, "pull") = 1
        ELSE /\ CountOf(log, "pull") = 0
             /\ CountOf(log, "progress") = 0

\* assertPullModel has returned after a pull, and with an installed model
C8_Witness ==
    /\ pc = "chatcall"
    /\ model = MODEL
    /\ models = Some(<<[name |-> <<"llama3">>], [name |-> <<"deepseek-coder">>]>>)
    /\ CountOf(log, "pull") = 1
    /\ CountOf(log, "progress") = 5

IsStdoutWrite(i) == stdout[i].kind = "write"

BrokeLineAfter(i) == i < Len(stdout) /\ stdout[i + 1].kind = "newline"

\* The digest event before the one that wrote stdout[i] was at 100% too
FollowsFullWrite(i) ==
    \E j \in 1..(i - 1) :
        /\ IsStdoutWrite(j)
        /\ stdout[j].percent = 100
        /\ \A k \in (j + 1)..(i - 1) : ~IsStdoutWrite(k)

\* C9: the line break follows a 100% digest event exactly when the digest
\* event before it was not at 100%: once per completion, and not again on
\* the second, third, ... consecutive 100% event.
C9_LineBreakOncePerCompletion ==
    \A i \in 1..Len(stdout) :
        (IsStdoutWrite(i) /\ stdout[i].percent = 100) =>
            (BrokeLineAfter(i) <=> ~FollowsFullWrite(i))

\* The write of the digest event consumed last
LastStdoutWrite ==
    IF stdout[Len(stdout)].kind = "write"
    THEN stdout[Len(stdout)]
    ELSE stdout[Len(stdout) - 1]

LastIsDigestEvent == lastPart # None /\ lastPart[1].digest = Some("sha256:a")

\* p is num/den rounded to the nearest integer, a half rounded up
IsRounded(p, num, den) ==
    /\ 2 * num - 2 * p * den <= den
    /\ 2 * num - 2 * p * den > -den

\* C10 as stated: the percent of a digest event is 100 whenever completed
\* equals total, zero included; it is round(completed/total * 100) when both
\* counts are present, and 0 otherwise.
C10_PercentAsStated ==
    LastIsDigestEvent =>
        LET c == lastPart[1].completed
            t == lastPart[1].total
            p == LastStdoutWrite.percent
        IN  /\ (c # None /\ t # None /\ c = t) => p = 100
            /\ (c # None /\ t # None /\ t # Some(0)) => IsRounded(p, c[1] * 100, t[1])
            /\ (c = None \/ t = None) => p = 0

\* C10, amended: the percent of a digest event is round(completed/total *
\* 100) when both counts are present and not zero, which is 100 when they
\* are equal, and 0 when a count is absent or zero.
C10_PercentRounded ==
    LastIsDigestEvent =>
        LET c == lastPart[1].completed
            t == lastPart[1].total
            p == LastStdoutWrite.percent
        IN  IF c \notin {None, Some(0)} /\ t \notin {None, Some(0)}
            THEN /\ IsRounded(p, c[1] * 100, t[1])
                 /\ c = t => p = 100
            ELSE p = 0

C10_Witness ==
    /\ LastIsDigestEvent
    /\ lastPart[1].completed = Some(2)
    /\ lastPart[1].total = Some(3)
    /\ LastStdoutWrite.percent = 67

\* ------------------------------------------------- failures of the turn

\* The text holds one of handleError's two messages
IsErrorText(text) ==
    \/ Includes(text, <<"I'm sorry, I can't help with that. Can I help with something else?">>)
    \/ Includes(text, <<"I'm sorry, I cannot connect to the Ollama server.">>)

\* The error messages written to the output stream
ErrorsRendered == SelectSeq(log, LAMBDA e : IsMarkdown(e) /\ IsErrorText(e.text))

\* A step of the turn failed with a value whose properties can be read; C5
\* is about the other values.
FailedWithAnError ==
    \/ err # None /\ ~err[1].nullish
    \/ chatError # None /\ ~chatError[1].nullish

\* C11: when a step of the turn has failed (getTools, ps, list, pull, the
\* chat call or a read of the chat stream) with an error, the turn ends with
\* handleError called on the error and exactly one error message written to
\* the output stream.
C11_FailureRendersOneError ==
    (Finished /\ FailedWithAnError) =>
        /\ err # None
        /\ Len(ErrorsRendered) = 1

\* C12: when chat() fails, or the chat stream fails after k chunks, with an
\* error, streamResponse has yielded exactly the k chunks, each written to
\* the output stream in order, and ends without throwing: agentHandler goes
\* on as after a stream that ended by itself after k chunks, returning its
\* result with nothing more written and nothing caught.
C12_ChatFailureEndsStream ==
    [][(chatError = None /\ chatError' # None /\ ~chatError'[1].nullish) =>
          /\ chat' = "failed"
          /\ MarkdownTexts(log') = ServedTexts'
          /\ pc' = "returned"
          /\ result' = Some(IAgentChatResult)
          /\ UNCHANGED <<served, log, err, rejected, messages, stdout>>]_vars

C12_Witness ==
    /\ chatError # None
    /\ ~chatError[1].nullish
    /\ chat = "failed"
    /\ pc = "returned"
    /\ err = None
    /\ Len(served) = 2
    /\ MarkdownTexts(log) = << <<"l", "o">>, <<"H", "e", "l">> >>

\* ------------------------------------------------ errors in the history

\* An earlier turn whose response holds an error message of handleError
ErrorTurn(i) ==
    /\ history[i].kind = "response"
    /\ \E j \in 1..Len(history[i].response) : IsErrorText(history[i].response[j].value)

\* C13: in a conversation whose history holds, for each earlier turn, the
\* markdown parts written in that turn, no message of the list given to
\* chat() in a later turn holds an error message that handleError wrote in
\* an earlier turn, the connectivity message or the fallback.
C13_NoErrorTextResubmitted ==
    (CountOf(log, "chat") = 1 /\ \E i \in 1..Len(history) : ErrorTurn(i)) =>
        \A k \in 1..Len(messages) : ~IsErrorText(messages[k].content)

\* ----------------------------------------------- the four recognised codes

\* C14: when handleError has handled an error whose own code or whose
\* cause's code is ERR_INVALID_URL or ECONNREFUSED (either code, in either
\* place), the message it rendered is the connectivity message.
C14_AllFourAreConnectivity ==
    (pc = "returned" /\ err # None
        /\ (err[1].code \in Recognized \/ err[1].causeCode \in Recognized)) =>
        /\ IsMarkdown(LastWritten)
        /\ IsMarked(LastWritten.text)
        /\ Includes(LastWritten.text, <<"I'm sorry, I cannot connect to the Ollama server.">>)

\* --------------------------------------------- the adapter never fails

\* C15: appendAssistantHistory fails for no history: once list() has
\* answered with the model installed, agentHandler has its messages and has
\* caught nothing, whatever the turns of the history are, a turn of neither
\* kind and a response turn with a part without a text value included.
C15_AdapterNeverFails ==
    models # None => (pc \in {"chatcall", "chatopen"} /\ err = None)

\* ------------------------------------------------ the order of the calls

\* The server calls of the turn so far, in order
CallNames ==
    LET calls == SelectSeq(log, IsCall)
    IN  [i \in 1..Len(calls) |-> calls[i].method]

CallOrders ==
    { <<>>, <<"ps">>, <<"ps", "list">>, <<"ps", "list", "pull">>,
      <<"ps", "list", "chat">>, <<"ps", "list", "pull", "chat">> }

IndexOf(entry) == CHOOSE i \in 1..Len(log) : log[i] = entry

\* ps, list, pull only when no installed model matches, chat; chat only
\* after list() has answered and, after a pull, after the download is
\* complete; a fragment of the model only after the chat call.
CallsInOrder ==
    /\ CallNames \in CallOrders
    /\ CountOf(log, "pull") = 1 => (models # None /\ NoneInstalled)
    /\ CountOf(log, "chat") = 1 =>
         /\ models # None
         /\ NoneInstalled =>
              /\ CountOf(log, "pull") = 1
              /\ \E i \in 1..Len(log) :
                   /\ log[i] = Progress(<<"Download complete!\n">>)
                   /\ IndexOf(Call("pull")) < i
                   /\ i < IndexOf(Call("chat"))
    /\ \A i \in 1..Len(log) :
         (IsMarkdown(log[i]) /\ ~IsErrorText(log[i].text)) =>
             /\ CountOf(log, "chat") = 1
             /\ IndexOf(Call("chat")) < i

\* A step that follows a failure makes no server call.
NoCallAfterFailure == (err # None \/ chatError # None) => CallNames' = CallNames

\* C16: the server calls of a turn are made in the order ps, list, pull
\* (only when the model is not installed), chat, each at most once; after a
\* failure no further call is made; and no fragment of the model is written
\* before ps() and the model check have succeeded.
C16_CallsInOrderOnce == []CallsInOrder /\ [][NoCallAfterFailure]_vars

C16_Witness ==
    /\ pc = "returned"
    /\ CallNames = <<"ps", "list", "pull", "chat">>
    /\ Len(served) = 1
    /\ err = None
    /\ chatError = None

\* ------------------------------------------------- the messages of chat()

\* The turns of the history that give a message: the request turns, and the
\* response turns with some text left once the marked parts are dropped
GivesMessage(m) ==
    \/ m.kind = "request"
    \/ m.kind = "response" /\ KeptText(m.response) # <<>>

\* C17: the messages given to chat() are the preamble, then the adapter's
\* messages for the history, then one user message with the new prompt: the
\* first is the preamble, the last is the prompt with role user, there are
\* two more than the adapter gave, and every role is user or assistant.
C17_MessagesAsBuilt ==
    CountOf(log, "chat") = 1 =>
        /\ messages[1] = [role |-> "user", content |-> BASE_PROMPT]
        /\ messages[Len(messages)] = [role |-> "user", content |-> prompt]
        /\ HistoryMessages = appendAssistantHistory(history)
        /\ Len(messages) = 2 + Cardinality({i \in 1..Len(history) : GivesMessage(history[i])})
        /\ \A k \in 1..Len(messages) : messages[k].role \in {"user", "assistant"}

C17_Witness ==
    /\ pc = "chatopen"
    /\ log[Len(log)] = Call("chat")
    /\ history = <<RequestTurn(<<"p">>), ResponseTurn(<<MarkdownPart(T_e)>>),
                   ResponseTurn(<<MarkdownPart(T_a), MarkdownPart(T_b)>>)>>
    /\ Len(messages) = 4
    /\ messages[3] = [role |-> "assistant", content |-> <<"a", "b">>]

\* ------------------------------------------- the progress lines of a pull

DownloadComplete == Progress(<<"Download complete!\n">>)

\* One step of pullModel's loop over the event stream
PullStepAsStated ==
    \/ \* an event: its status line when it has no digest, else nothing
       /\ pulled' = pulled + 1
       /\ pc' = "pulling"
       /\ err' = None
       /\ log' = IF lastPart'[1].digest = None
                 THEN Append(log, Progress(<<lastPart'[1].status, "...\n">>))
                 ELSE log
    \/ \* the end of the stream: the final line, and pullModel returns
       /\ pc' = "chatcall"
       /\ err' = None
       /\ log' = Append(log, DownloadComplete)
    \/ \* a failure of the stream: nothing written, the error thrown on
       /\ pc' = "catch"
       /\ err' # None
       /\ log' = log
    \/ \* not a step of pullModel
       UNCHANGED <<pc, pulled, log, err>>

\* The final line is written at most once, and no progress line after it
FinalLineLast ==
    /\ Len(SelectSeq(log, LAMBDA e : e = DownloadComplete)) <= 1
    /\ \A i \in 1..Len(log) :
         log[i] = DownloadComplete => \A j \in (i + 1)..Len(log) : ~IsProgress(log[j])

\* C18: while pullModel reads the event stream, each event without a digest
\* adds one progress line with its status, in the order of arrival, and an
\* event with a digest adds nothing to the output stream; the end of the
\* stream adds the one line Download complete!, after which pullModel writes
\* nothing; a failure of the stream adds no line and is thrown on to
\* agentHandler.
C18_ProgressPerEvent == []FinalLineLast /\ [][pc = "pulling" => PullStepAsStated]_vars

C18_Witness ==
    /\ pc = "chatcall"
    /\ pulled = 2
    /\ lastPart[1].digest # None
    /\ log[Len(log)] = DownloadComplete
    /\ log[Len(log) - 1] = Progress(<<"verifying", "...\n">>)
    /\ log[Len(log) - 2] = Call("pull")

\* ------------------------------------------------------ two turns apart

\* The calls of agentHandler under way
Calls == {Locals} \cup (IF suspended = None THEN {} ELSE {suspended[1]})

\* The call's messages are built from its own history and prompt.
OwnMessages(t) ==
    t.messages # <<>> =>
        /\ t.messages[1] = [role |-> "user", content |-> BASE_PROMPT]
        /\ t.messages[Len(t.messages)] = [role |-> "user", content |-> t.prompt]
        /\ SubSeq(t.messages, 2, Len(t.messages) - 1) = appendAssistantHistory(t.history)

\* The call's writes are those of its own steps: the fragments are its own
\* chunks in order, the progress lines those of its own pull, and an error
\* message is there when the call itself has handled an error.
OwnWrites(t) ==
    LET fragments == SelectSeq(t.log, LAMBDA e : IsMarkdown(e) /\ ~IsErrorText(e.text))
        errors == SelectSeq(t.log, LAMBDA e : IsMarkdown(e) /\ IsErrorText(e.text))
        lines == SelectSeq(t.log, LAMBDA e : IsProgress(e) /\ e # DownloadComplete)
    IN  /\ Len(fragments) = Len(t.served)
        /\ \A k \in 1..Len(fragments) : fragments[k].text = t.served[k].message.content
        /\ Len(errors) = (IF t.pc = "returned" /\ t.err # None THEN 1 ELSE 0)
        /\ Len(lines) <= 3 + t.pulled
        /\ Len(lines) > 0 => (t.models # None /\ t.models[1] = <<>>)

\* The call's flag follows its own events: it is set only after a digest
\* event of its own, and it is set after a first event that is complete.
OwnFlag(t) ==
    /\ t.currentDigestDone => t.pulled >= 1
    /\ (t.pulled = 1 /\ t.lastPart[1].digest # None /\ t.lastPart[1].completed = t.lastPart[1].total)
           => t.currentDigestDone

TurnsApart == \A t \in Calls : OwnMessages(t) /\ OwnWrites(t) /\ OwnFlag(t)

\* A step is a step of the running call, which leaves the locals of the
\* suspended call alone, or it suspends the running call with its locals as
\* they are and resumes the other call with its locals as it left them.
LocalsKept ==
    \/ suspended' = suspended
    \/ /\ suspended # None
       /\ suspended' = Some(Locals)
       /\ Locals' = suspended[1]

\* C19: with two calls of agentHandler under way, whatever the order in
\* which they go from await to await, each call's writes to its output
\* stream and each call's messages are those of its own steps, history and
\* prompt, as when the call runs alone: a call resumes with its locals
\* (currentDigestDone and messages among them) as it left them.
C19_TurnsDoNotInterfere == []TurnsApart /\ [][LocalsKept]_vars

\* Both calls are under way, each between two of its awaits: the running
\* one relays its answer while the other one is in its pull
C19_Witness ==
    /\ suspended # None
    /\ pc = "relay"
    /\ Len(served) = 1
    /\ ~currentDigestDone
    /\ messages = BuildMessages(<<>>, <<"p">>)
    /\ suspended[1].pc = "pulling"
    /\ suspended[1].pulled = 1
    /\ suspended[1].currentDigestDone
    /\ suspended[1].messages = <<>>

====
